---- MODULE Spec2Model ----
(***************************************************************************)
(* A model of wotd.ts, the word-of-the-day command line tool: loadWordList, *)
(* getWordOfTheDay, fetchWordData, displayWord (with its closures pad and   *)
(* wrap) and main.                                                          *)
(*                                                                          *)
(* A JavaScript string is a sequence of one-character strings; the          *)
(* character ESC stands for \x1b.  Words of the word lists, and the pieces  *)
(* of console.error messages, are kept as whole TLA+ strings.               *)
(***************************************************************************)
EXTENDS Integers, Sequences, FiniteSets, TLC

VARIABLES
    pc,             \* position of the run
    defaultResp,    \* outcome of fetch(defaultWordsURL)
    homeDir,        \* Deno.env.get("HOME"): "set" or "unset"
    ensureDirOk,    \* whether ensureDir(configPath) resolves
    customFile,     \* outcome of Deno.readTextFile + JSON.parse
    now,            \* new Date(): local calendar fields and the zone
    apiResp,        \* outcome of fetch(API_URL)
    terminalWidth,  \* Deno.consoleSize().columns
    colorEnabled,   \* std/fmt/colors: enabled = !Deno.noColor
    defaultWords,   \* loadWordList's local
    customWords,    \* loadWordList's local
    wordList,       \* main's wordList
    word,           \* main's word
    firstWord,      \* the word an earlier run of the same day selected
    data,           \* main's data
    lookups,        \* the words fetch(API_URL) was issued for, in order
    stdout,         \* lines written by console.log
    stderr,         \* messages written by console.error
    text,           \* wrap's argument
    prefix,         \* wrap's argument
    contentWidth,   \* displayWord's contentWidth, captured by pad and wrap
    lines           \* wrap's result

vars == <<pc, defaultResp, homeDir, ensureDirOk, customFile, now, apiResp,
          terminalWidth, colorEnabled, defaultWords, customWords, wordList,
          word, firstWord, data, lookups, stdout, stderr, text, prefix,
          contentWidth, lines>>

None == "none"

\* main's data before fetchWordData has returned
NoData == [t |-> "none", v |-> <<>>]

Range(s) == {s[i] : i \in 1..Len(s)}

Min(a, b) == IF a < b THEN a ELSE b

(***************************************************************************)
(* Strings                                                                  *)
(***************************************************************************)
SP == " "

ESC == "ESC"

\* String.prototype.repeat for a one-character string and count >= 0
repeat(ch, count) == [i \in 1..count |-> ch]

\* String.prototype.padEnd with the default filler, a space
padEnd(s, targetLength) ==
    IF Len(s) >= targetLength THEN s
    ELSE s \o repeat(SP, targetLength - Len(s))

RECURSIVE splitFrom(_, _, _)
\* text.split(" "): the pieces between single spaces, empty pieces included
splitFrom(s, i, cur) ==
    IF i > Len(s) THEN <<cur>>
    ELSE IF s[i] = SP THEN <<cur>> \o splitFrom(s, i + 1, <<>>)
    ELSE splitFrom(s, i + 1, Append(cur, s[i]))

split(s) == splitFrom(s, 1, <<>>)

RECURSIVE join(_, _)
\* Array.prototype.join
join(parts, sep) ==
    IF parts = <<>> THEN <<>>
    ELSE IF Len(parts) = 1 THEN parts[1]
    ELSE parts[1] \o sep \o join(Tail(parts), sep)

RECURSIVE Flatten(_)
\* Array.prototype.flat, and flatMap on the mapped array
Flatten(ss) == IF ss = <<>> THEN <<>> ELSE Head(ss) \o Flatten(Tail(ss))

RECURSIVE Digits(_)
\* the decimal digits of a number >= 0, as template interpolation writes it
Digits(n) ==
    LET d == <<"0", "1", "2", "3", "4", "5", "6", "7", "8", "9">>
    IN  IF n < 10 THEN <<d[n + 1]>> ELSE Digits(n \div 10) \o <<d[(n % 10) + 1]>>

(***************************************************************************)
(* std/fmt/colors.ts: run(str, code) wraps str in the SGR open and close    *)
(* sequences when colours are enabled, and returns str otherwise.           *)
(***************************************************************************)
sgr(n) == <<ESC, "[">> \o Digits(n) \o <<"m">>

run(enabled, str, open, close) ==
    IF enabled THEN sgr(open) \o str \o sgr(close) ELSE str

bold(en, s) == run(en, s, 1, 22)

italic(en, s) == run(en, s, 3, 23)

yellow(en, s) == run(en, s, 33, 39)

magenta(en, s) == run(en, s, 35, 39)

cyan(en, s) == run(en, s, 36, 39)

gray(en, s) == run(en, s, 90, 39)

(***************************************************************************)
(* displayWord's closures over contentWidth (cw)                            *)
(***************************************************************************)
\* const pad = (s) => ` ${s.padEnd(contentWidth - 1)}`
pad(s, cw) == <<SP>> \o padEnd(s, cw - 1)

\* wrap's maxWidth
maxWidth(pfx, cw) == cw - 2 - Len(pfx)

RECURSIVE wrapLoopSkipsWord(_, _, _, _, _)
\* wrap's loop with the word that starts a new line dropped
wrapLoopSkipsWord(words, pushed, currentLine, pfx, cw) ==
    IF words = <<>> THEN Append(pushed, currentLine)
    ELSE LET w == Head(words)
         IN  IF Len(currentLine) + Len(w) + 1 > maxWidth(pfx, cw)
             THEN wrapLoopSkipsWord(Tail(words), Append(pushed, currentLine),
                                    pfx, pfx, cw)
             ELSE wrapLoopSkipsWord(Tail(words), pushed,
                      currentLine \o (IF currentLine = pfx THEN <<>> ELSE <<SP>>) \o w,
                      pfx, cw)

RECURSIVE wrapLoop(_, _, _, _, _)
\* wrap's for loop and the final push; pushed holds every currentLine that
\* was pushed, in order (the code pushes pad(currentLine))
wrapLoop(words, pushed, currentLine, pfx, cw) ==
    IF words = <<>> THEN Append(pushed, currentLine)
    ELSE LET w == Head(words)
         IN  IF Len(currentLine) + Len(w) + 1 > maxWidth(pfx, cw)
             THEN wrapLoop(Tail(words), Append(pushed, currentLine),
                           pfx \o w, pfx, cw)
             ELSE wrapLoop(Tail(words), pushed,
                      currentLine \o (IF currentLine = pfx THEN <<>> ELSE <<SP>>) \o w,
                      pfx, cw)

\* the currentLine values wrap pushes, before pad
wrapLines(txt, pfx, cw) == wrapLoop(split(txt), <<>>, pfx, pfx, cw)

\* const wrap = (text, prefix = "") => string[]
wrap(txt, pfx, cw) ==
    LET raw == wrapLines(txt, pfx, cw)
    IN  [i \in 1..Len(raw) |-> pad(raw[i], cw)]

(***************************************************************************)
(* Calls of wrap on bounded inputs                                          *)
(***************************************************************************)
MaxTextLen == 6

MaxContentWidth == 16

Alphabet == {"a", "b", SP}

\* displayWord never passes wrap an empty text
Texts == UNION {[1..n -> Alphabet] : n \in 1..MaxTextLen}

\* the prefixes displayWord passes: "  " (definitions, synonyms) and "    "
\* (examples)
Prefixes == {<<SP, SP>>, <<SP, SP, SP, SP>>}

Idle ==
    /\ defaultResp = None /\ homeDir = None /\ ensureDirOk = TRUE
    /\ customFile = None /\ now = None /\ apiResp = None
    /\ terminalWidth = 0 /\ colorEnabled = FALSE
    /\ defaultWords = <<>> /\ customWords = <<>> /\ wordList = <<>>
    /\ word = None /\ firstWord = None /\ data = NoData
    /\ lookups = <<>> /\ stdout = <<>> /\ stderr = <<>>

InitWrap ==
    /\ Idle
    /\ pc = "wrap"
    /\ text \in Texts
    /\ prefix \in Prefixes
    /\ contentWidth \in 0..MaxContentWidth
    /\ lines = <<>>

CallWrap ==
    /\ pc = "wrap"
    /\ lines' = wrap(text, prefix, contentWidth)
    /\ pc' = "wrapped"
    /\ UNCHANGED <<defaultResp, homeDir, ensureDirOk, customFile, now, apiResp,
                   terminalWidth, colorEnabled, defaultWords, customWords,
                   wordList, word, firstWord, data, lookups, stdout, stderr,
                   text, prefix, contentWidth>>

NextWrap == CallWrap

SpecWrap == InitWrap /\ [][NextWrap]_vars

(***************************************************************************)
(* loadWordList.  A JSON payload is [t, v]: t = "invalid" when it does not  *)
(* parse, "object" when it parses to something that is no array, "array"    *)
(* with the elements v otherwise.  An element is a word or a JSON number;   *)
(* the number 7 is written "#7" to tell it from a string.                   *)
(***************************************************************************)
JsonNumbers == {"#7"}

isString(x) == x \notin JsonNumbers

\* response.ok
isOk(status) == status \in 200..299

\* step 1: the default word list and what console.error is given
loadDefaultWords(resp, en) ==
    IF resp.kind = "throw"
    THEN [words |-> <<>>,
          warn |-> <<gray(en, <<"Error fetching default word list: ">> \o resp.message)>>]
    ELSE IF isOk(resp.status)
    THEN IF resp.json.t = "array"
         THEN [words |-> resp.json.v, warn |-> <<>>]
         ELSE [words |-> <<>>,
               warn |-> <<gray(en, <<"Error fetching default word list: ",
                                     "Unexpected token">>)>>]
    ELSE [words |-> <<>>,
          warn |-> <<gray(en, <<"Could not fetch default word list.">>)>>]

\* step 2: the custom word list, what console.error is given, and whether
\* the step throws (ensureDir is outside the try block)
loadCustomWords(home, dirOk, file, en) ==
    IF home = "unset"
    THEN [threw |-> FALSE, message |-> <<>>, words |-> <<>>, warn |-> <<>>]
    ELSE IF ~dirOk
    THEN [threw |-> TRUE, message |-> <<"ensureDir: ", "cannot create directory">>,
          words |-> <<>>, warn |-> <<>>]
    ELSE IF file.kind = "NotFound"
    THEN [threw |-> FALSE, message |-> <<>>, words |-> <<>>, warn |-> <<>>]
    ELSE IF file.kind = "error"
    THEN [threw |-> FALSE, message |-> <<>>, words |-> <<>>,
          warn |-> <<yellow(en, <<"Warning: Could not read or parse custom_words.json. ">>
                                  \o file.message)>>]
    ELSE IF file.json.t = "invalid"
    THEN [threw |-> FALSE, message |-> <<>>, words |-> <<>>,
          warn |-> <<yellow(en, <<"Warning: Could not read or parse custom_words.json. ",
                                  "Unexpected token">>)>>]
    ELSE IF file.json.t # "array"
    THEN [threw |-> FALSE, message |-> <<>>, words |-> <<>>,
          warn |-> <<yellow(en, <<"Warning: Custom words file is not a valid JSON array. Ignoring.">>)>>]
    ELSE [threw |-> FALSE, message |-> <<>>, words |-> file.json.v, warn |-> <<>>]

RECURSIVE newSet(_, _)
\* [...new Set(items)]: the items in insertion order, each value once
newSet(items, acc) ==
    IF items = <<>> THEN acc
    ELSE newSet(Tail(items),
                IF Head(items) \in Range(acc) THEN acc ELSE Append(acc, Head(items)))

\* the lists put together without the Set
mergeListsKeepsRepeats(d, c) == d \o c

\* step 3: const combinedList = [...new Set([...defaultWords, ...customWords])]
mergeLists(d, c) == newSet(d \o c, <<>>)

EmptyListMessage == <<"Word list is empty. Cannot select a word of the day.">>

\* main's catch: console.error(bold(yellow(`\nError: ${error.message}\n`)))
errorReport(message, en) ==
    bold(en, yellow(en, <<"\nError: ">> \o message \o <<"\n">>))

\* main: const wordList = await loadWordList(), and main's catch when it
\* throws
LoadWordList ==
    /\ pc = "start"
    /\ LET dflt == loadDefaultWords(defaultResp, colorEnabled)
           cust == loadCustomWords(homeDir, ensureDirOk, customFile, colorEnabled)
           combinedList == mergeLists(dflt.words, cust.words)
       IN  /\ defaultWords' = dflt.words
           /\ customWords' = cust.words
           /\ IF cust.threw
              THEN /\ wordList' = wordList
                   /\ stderr' = stderr \o dflt.warn
                                  \o <<errorReport(cust.message, colorEnabled)>>
                   /\ pc' = "failed"
              ELSE IF Len(combinedList) = 0
              THEN /\ wordList' = wordList
                   /\ stderr' = stderr \o dflt.warn \o cust.warn
                                  \o <<errorReport(EmptyListMessage, colorEnabled)>>
                   /\ pc' = "failed"
              ELSE /\ wordList' = combinedList
                   /\ stderr' = stderr \o dflt.warn \o cust.warn
                   /\ pc' = "loaded"
    /\ UNCHANGED <<defaultResp, homeDir, ensureDirOk, customFile, now, apiResp,
                   terminalWidth, colorEnabled, word, firstWord, data, lookups,
                   stdout, text, prefix, contentWidth, lines>>

(***************************************************************************)
(* Runs of loadWordList over the outcomes of the two word sources           *)
(***************************************************************************)
MaxList == 2

\* "alpha" and "Alpha" differ in case only
WordValues == {"alpha", "Alpha", "beta"}

WordLists == UNION {[1..n -> WordValues] : n \in 0..MaxList}

JsonArrays == UNION {[1..n -> WordValues \cup JsonNumbers] : n \in 0..MaxList}

NoJson == [t |-> "invalid", v |-> <<>>]

DefaultResponses ==
    {[kind |-> "throw", status |-> 0, json |-> NoJson, message |-> <<"error sending request">>]}
    \cup {[kind |-> "response", status |-> st, json |-> NoJson, message |-> <<>>] :
            st \in {200, 404, 500}}
    \cup {[kind |-> "response", status |-> 200, json |-> [t |-> "array", v |-> l],
           message |-> <<>>] : l \in WordLists}

CustomFiles ==
    {[kind |-> "NotFound", json |-> NoJson, message |-> <<>>],
     [kind |-> "error", json |-> NoJson, message |-> <<"Permission denied">>],
     [kind |-> "content", json |-> NoJson, message |-> <<>>],
     [kind |-> "content", json |-> [t |-> "object", v |-> <<>>], message |-> <<>>]}
    \cup {[kind |-> "content", json |-> [t |-> "array", v |-> l], message |-> <<>>] :
            l \in JsonArrays}

InitLoad ==
    /\ pc = "start"
    /\ defaultResp \in DefaultResponses
    /\ homeDir \in {"set", "unset"}
    /\ ensureDirOk \in BOOLEAN
    /\ customFile \in CustomFiles
    \* without HOME or the directory, the file is not there to be read
    /\ (homeDir = "unset" \/ ~ensureDirOk) => customFile.kind = "NotFound"
    /\ colorEnabled \in BOOLEAN
    /\ now = None /\ apiResp = None /\ terminalWidth = 0
    /\ defaultWords = <<>> /\ customWords = <<>> /\ wordList = <<>>
    /\ word = None /\ firstWord = None /\ data = NoData
    /\ lookups = <<>> /\ stdout = <<>> /\ stderr = <<>>
    /\ text = <<>> /\ prefix = <<>> /\ contentWidth = 0 /\ lines = <<>>

NextLoad == LoadWordList

SpecLoad == InitLoad /\ [][NextLoad]_vars

NoRepeats(l) == \A i, j \in 1..Len(l) : l[i] = l[j] => i = j

\* the place of the first occurrence of x in l
firstIndex(l, x) == CHOOSE i \in 1..Len(l) : l[i] = x /\ \A j \in 1..(i - 1) : l[j] # x

\* l holds every value of src exactly once, in the order of first occurrence
IsDeduplicated(l, src) ==
    /\ NoRepeats(l)
    /\ Range(l) = Range(src)
    /\ Len(l) = Cardinality(Range(src))
    /\ \A i, j \in 1..Len(l) : i < j => firstIndex(src, l[i]) < firstIndex(src, l[j])

\* loadWordList threw before the lists were merged
ThrewBeforeMerge == homeDir = "set" /\ ~ensureDirOk

\* C3: the merged pool holds every distinct string of the default and the
\* custom list exactly once (its size is the number of distinct strings),
\* in the order of first occurrence; when both lists are empty, loadWordList
\* throws the empty-list error and returns no pool.
C3_MergedPoolDistinct ==
    /\ pc = "loaded" =>
          /\ IsDeduplicated(wordList, defaultWords \o customWords)
          /\ Len(wordList) = Cardinality(Range(defaultWords) \cup Range(customWords))
          /\ wordList # <<>>
    /\ (pc # "start" /\ ~ThrewBeforeMerge /\ defaultWords = <<>> /\ customWords = <<>>)
          => /\ pc = "failed"
             /\ wordList = <<>>
             /\ stderr # <<>>
             /\ stderr[Len(stderr)] = errorReport(EmptyListMessage, colorEnabled)

\* C3: two overlapping lists with a repeat inside one of them have been merged
C3_Witness ==
    /\ pc = "loaded"
    /\ Len(defaultWords) = 2
    /\ ~NoRepeats(customWords)
    /\ Range(defaultWords) \cap Range(customWords) # {}
    /\ Range(wordList) = {"alpha", "Alpha"}

\* the default-list fetch failed: a transport error or a non-200 response
DefaultFetchFailed == defaultResp.kind = "throw" \/ defaultResp.status # 200

\* the custom file is missing, unreadable, unparseable, or parses to
\* something that is not a sequence of strings
CustomFileUnusable ==
    \/ customFile.kind \in {"NotFound", "error"}
    \/ customFile.json.t # "array"
    \/ \E i \in 1..Len(customFile.json.v) : ~isString(customFile.json.v[i])

\* C8: when one word source fails and the other has words, loadWordList
\* returns the deduplicated list of the other source and the run goes on to
\* word selection.
C8_SingleSourceFailureRecovered ==
    pc # "start" =>
        /\ (DefaultFetchFailed /\ homeDir = "set" /\ ~CustomFileUnusable
              /\ customFile.json.v # <<>>)
              => pc = "loaded" /\ IsDeduplicated(wordList, customFile.json.v)
        /\ (homeDir = "set" /\ CustomFileUnusable /\ ~DefaultFetchFailed
              /\ defaultResp.json.t = "array" /\ defaultResp.json.v # <<>>)
              => pc = "loaded" /\ IsDeduplicated(wordList, defaultResp.json.v)

(***************************************************************************)
(* getWordOfTheDay.  Date.prototype.getTime is counted in seconds from      *)
(* 00:00 UTC of January 1st of the year of now: the instants below are      *)
(* whole hours, so the factor 1000 of the code's milliseconds cancels in    *)
(* diff / oneDay, and only differences of getTime values are used.          *)
(***************************************************************************)
isLeapYear(y) == (y % 4 = 0 /\ y % 100 # 0) \/ y % 400 = 0

daysInMonth(y, m) ==
    IF m = 2 THEN (IF isLeapYear(y) THEN 29 ELSE 28)
    ELSE IF m \in {4, 6, 9, 11} THEN 30 ELSE 31

RECURSIVE daysBeforeMonth(_, _)
daysBeforeMonth(y, m) ==
    IF m = 1 THEN 0 ELSE daysBeforeMonth(y, m - 1) + daysInMonth(y, m - 1)

\* the 1-based ordinal of a calendar date in its year (January 1st = 1)
ordinalDay(d) == daysBeforeMonth(d.year, d.month) + d.day

\* Hours by which local time is ahead of UTC throughout a month: "fixed" has
\* no daylight saving time; "north" changes its clocks within March and
\* within November and has daylight saving time from April to October;
\* "south" changes within April and within October and has it from November
\* to March.
utcOffsetHours(zone, m) ==
    CASE zone = "fixed" -> 0
      [] zone = "north" -> IF m \in 4..10 THEN 2 ELSE 1
      [] zone = "south" -> IF m \in 5..9 THEN 10 ELSE 11

\* the months within which a zone changes its clocks
changeMonths(zone) ==
    CASE zone = "fixed" -> {}
      [] zone = "north" -> {3, 11}
      [] zone = "south" -> {4, 10}

\* now.getTime()
getTime(d) ==
    (ordinalDay(d) - 1) * 86400 + d.hour * 3600
        - utcOffsetHours(d.zone, d.month) * 3600

\* new Date(now.getFullYear(), 0, 0).getTime(): local midnight of day 0 of
\* January, which is December 31st of the year before
startOfYearTime(d) == 0 - 86400 - utcOffsetHours(d.zone, 12) * 3600

\* const oneDay = 1000 * 60 * 60 * 24, in seconds
oneDay == 60 * 60 * 24

\* Math.floor(diff / oneDay)
dayOfYear(d) == (getTime(d) - startOfYearTime(d)) \div oneDay

Undefined == "undefined"

\* dayOfYear % wordList.length is NaN for an empty list, and wordList[NaN]
\* is undefined
getWordOfTheDay(list, d) ==
    IF Len(list) = 0 THEN Undefined
    ELSE list[(dayOfYear(d) % Len(list)) + 1]

(***************************************************************************)
(* Runs of getWordOfTheDay over the calendar                                *)
(***************************************************************************)
MaxPool == 2

Lexicon == <<"alpha", "beta", "gamma", "delta">>

Pools == {SubSeq(Lexicon, 1, n) : n \in 1..MaxPool}

Years == {2023, 2024}

Zones == {"fixed", "north", "south"}

Instants ==
    {d \in [year : Years, month : 1..12, day : 1..31, hour : 0..23, zone : Zones] :
        /\ d.day <= daysInMonth(d.year, d.month)
        /\ d.month \notin changeMonths(d.zone)}

InitDay ==
    /\ pc = "loaded"
    /\ wordList \in Pools
    /\ now \in Instants
    /\ defaultResp = None /\ homeDir = None /\ ensureDirOk = TRUE
    /\ customFile = None /\ apiResp = None
    /\ terminalWidth = 0 /\ colorEnabled = FALSE
    /\ defaultWords = <<>> /\ customWords = <<>>
    /\ word = None /\ firstWord = None /\ data = NoData
    /\ lookups = <<>> /\ stdout = <<>> /\ stderr = <<>>
    /\ text = <<>> /\ prefix = <<>> /\ contentWidth = 0 /\ lines = <<>>

\* main: const word = getWordOfTheDay(wordList)
GetWordOfTheDay ==
    /\ pc = "loaded"
    /\ word' = getWordOfTheDay(wordList, now)
    /\ pc' = "selected"
    /\ UNCHANGED <<defaultResp, homeDir, ensureDirOk, customFile, now, apiResp,
                   terminalWidth, colorEnabled, defaultWords, customWords,
                   wordList, firstWord, data, lookups, stdout, stderr,
                   text, prefix, contentWidth, lines>>

\* The tool is started again at a later hour of the same local calendar
\* day, with the same word list.
RunAgainSameDay ==
    /\ pc = "selected"
    /\ firstWord = None
    /\ \E h \in 0..23 :
        /\ h > now.hour
        /\ now' = [now EXCEPT !.hour = h]
    /\ firstWord' = word
    /\ word' = None
    /\ pc' = "loaded"
    /\ UNCHANGED <<defaultResp, homeDir, ensureDirOk, customFile, apiResp,
                   terminalWidth, colorEnabled, defaultWords, customWords,
                   wordList, data, lookups, stdout, stderr,
                   text, prefix, contentWidth, lines>>

NextDay == GetWordOfTheDay \/ RunAgainSameDay

SpecDay == InitDay /\ [][NextDay]_vars

\* C1: two runs on the same local calendar day select the same word,
\* whatever the hours of the two runs and whatever the zone's UTC offset is
\* on that day.
C1_SameDaySameWord ==
    (pc = "selected" /\ firstWord # None) => word = firstWord

\* C2: the selected word is wordList[d mod n], d the 1-based ordinal day of
\* the year of the date of now (January 1st = 1) and n the size of the list.
C2_WordIsOrdinalDayModSize ==
    pc = "selected" =>
        word = wordList[(ordinalDay(now) % Len(wordList)) + 1]

(***************************************************************************)
(* fetchWordData                                                            *)
(***************************************************************************)
\* the Error fetchWordData throws for a response that is not ok
fetchErrorMessage(status, w) ==
    IF status = 404
    THEN <<"Sorry, could not find definitions for \"", w, "\".">>
    ELSE <<"API request failed with status: ">> \o Digits(status)

\* fetchWordData with the 404 case reported like any other status
fetchWordDataNo404Message(resp, w) ==
    IF resp.kind = "throw" THEN [threw |-> TRUE, message |-> resp.message, data |-> NoData]
    ELSE IF ~isOk(resp.status)
    THEN [threw |-> TRUE,
          message |-> <<"API request failed with status: ">> \o Digits(resp.status),
          data |-> NoData]
    ELSE IF resp.json.t = "invalid"
    THEN [threw |-> TRUE, message |-> <<"Unexpected token">>, data |-> NoData]
    ELSE [threw |-> FALSE, message |-> <<>>, data |-> resp.json]

\* fetchWordData(word): what it throws or returns
fetchWordData(resp, w) ==
    IF resp.kind = "throw" THEN [threw |-> TRUE, message |-> resp.message, data |-> NoData]
    ELSE IF ~isOk(resp.status)
    THEN [threw |-> TRUE, message |-> fetchErrorMessage(resp.status, w), data |-> NoData]
    ELSE IF resp.json.t = "invalid"
    THEN [threw |-> TRUE, message |-> <<"Unexpected token">>, data |-> NoData]
    ELSE [threw |-> FALSE, message |-> <<>>, data |-> resp.json]

\* main: const data = await fetchWordData(word), and main's catch when it
\* throws
FetchWordData ==
    /\ pc = "selected"
    /\ lookups' = Append(lookups, word)
    /\ LET r == fetchWordData(apiResp, word)
       IN  IF r.threw
           THEN /\ data' = data
                /\ stderr' = Append(stderr, errorReport(r.message, colorEnabled))
                /\ pc' = "failed"
           ELSE /\ data' = r.data
                /\ stderr' = stderr
                /\ pc' = "fetched"
    /\ UNCHANGED <<defaultResp, homeDir, ensureDirOk, customFile, now, apiResp,
                   terminalWidth, colorEnabled, defaultWords, customWords,
                   wordList, word, firstWord, stdout, text, prefix,
                   contentWidth, lines>>

(***************************************************************************)
(* displayWord.  The box-drawing characters are written TL, TR, BL, BR      *)
(* (corners), LT, RT (tees), H and V (bars); each is one character.         *)
(***************************************************************************)
\* const print = (s) => console.log(bold(gray("│")) + s + bold(gray("│")))
printed(s, en) == bold(en, gray(en, <<"V">>)) \o s \o bold(en, gray(en, <<"V">>))

\* entry.phonetics.find(p => p.text)?.text || entry.phonetic || ""
phoneticText(entry) ==
    LET found == SelectSeq(entry.phonetics, LAMBDA ph : ph.text # <<>>)
    IN  IF found # <<>> THEN found[1].text ELSE entry.phonetic

\* the lines printed for one definition and its example
definitionLines(def, defIndex, cw, en) ==
    LET defLines == wrap(Digits(defIndex + 1) \o <<".", SP>> \o def.definition,
                         <<SP, SP>>, cw)
        exLines == IF def.example # <<>>
                   THEN wrap(italic(en, <<"e", ".", "g", ".", " ", "\"">> \o def.example \o <<"\"">>),
                             <<SP, SP, SP, SP>>, cw)
                   ELSE <<>>
    IN  [i \in 1..Len(defLines) |-> printed(defLines[i], en)]
        \o [i \in 1..Len(exLines) |-> printed(gray(en, exLines[i]), en)]

\* the lines printed for one meaning (index is 0-based, as in forEach)
meaningLines(entry, index, cw, en) ==
    LET meaning == entry.meanings[index + 1]
    IN  <<printed(pad(magenta(en, meaning.partOfSpeech), cw), en)>>
        \o Flatten([k \in 1..Len(meaning.definitions) |->
                      definitionLines(meaning.definitions[k], k - 1, cw, en)])
        \o (IF index < Len(entry.meanings) - 1
            THEN <<printed(pad(<<>>, cw), en)>> ELSE <<>>)

\* the deduplicated synonyms: those of the meanings, then those of the
\* definitions
allSynonyms(entry) ==
    newSet(Flatten([k \in 1..Len(entry.meanings) |-> entry.meanings[k].synonyms])
           \o Flatten([k \in 1..Len(entry.meanings) |->
                 Flatten([j \in 1..Len(entry.meanings[k].definitions) |->
                            entry.meanings[k].definitions[j].synonyms])]),
           <<>>)

\* const contentWidth = Math.min(80, terminalWidth - 4)
contentWidthOf(columns) == Min(80, columns - 4)

\* everything displayWord writes with console.log for an entry, for a
\* contentWidth cw >= 0
boxLines(entry, cw, en) ==
    LET line == repeat("H", cw)
        topBorder == bold(en, gray(en, <<"TL">> \o line \o <<"TR">>))
        bottomBorder == bold(en, gray(en, <<"BL">> \o line \o <<"BR">>))
        separator == bold(en, gray(en, <<"LT">> \o line \o <<"RT">>))
        synonyms == allSynonyms(entry)
    IN  <<topBorder,
          printed(pad(bold(en, cyan(en, entry.word)) \o <<SP, SP>>
                        \o gray(en, italic(en, phoneticText(entry))), cw), en),
          separator>>
        \o Flatten([k \in 1..Len(entry.meanings) |-> meaningLines(entry, k - 1, cw, en)])
        \o (IF Len(synonyms) > 0
            THEN <<separator, printed(pad(bold(en, yellow(en, <<"T", "h", "e", "s", "a", "u", "r", "u", "s">>)), cw), en)>>
                 \o LET thesaurusLines == wrap(join(synonyms, <<",", SP>>), <<SP, SP>>, cw)
                    IN  [i \in 1..Len(thesaurusLines) |-> printed(thesaurusLines[i], en)]
            ELSE <<>>)
        \o <<bottomBorder>>

\* displayWord(data): what it throws, logs and writes to stderr.
\* "─".repeat(contentWidth) throws a RangeError for a negative count, before
\* anything is printed.
displayWord(d, columns, en) ==
    IF d.t # "array" \/ d.v = <<>>
    THEN [threw |-> FALSE, message |-> <<>>, out |-> <<>>,
          errs |-> <<bold(en, yellow(en, <<"No data to display.">>))>>]
    ELSE IF contentWidthOf(columns) < 0
    THEN [threw |-> TRUE,
          message |-> <<"Invalid count value: -">> \o Digits(0 - contentWidthOf(columns)),
          out |-> <<>>, errs |-> <<>>]
    ELSE [threw |-> FALSE, message |-> <<>>,
          out |-> boxLines(d.v[1], contentWidthOf(columns), en), errs |-> <<>>]

\* main: displayWord(data), and main's catch when it throws
DisplayWord ==
    /\ pc = "fetched"
    /\ LET r == displayWord(data, terminalWidth, colorEnabled)
       IN  /\ stdout' = stdout \o r.out
           /\ stderr' = stderr \o r.errs
                          \o (IF r.threw THEN <<errorReport(r.message, colorEnabled)>>
                              ELSE <<>>)
           /\ pc' = IF r.threw THEN "failed" ELSE "done"
    /\ contentWidth' = IF data.t = "array" /\ data.v # <<>>
                       THEN contentWidthOf(terminalWidth) ELSE contentWidth
    /\ UNCHANGED <<defaultResp, homeDir, ensureDirOk, customFile, now, apiResp,
                   terminalWidth, colorEnabled, defaultWords, customWords,
                   wordList, word, firstWord, data, lookups, text, prefix, lines>>

(***************************************************************************)
(* Dictionary entries, as the dictionary API returns them                   *)
(***************************************************************************)
EntryOx ==
    [word |-> <<"o", "x">>,
     phonetic |-> <<>>,
     phonetics |-> <<>>,
     meanings |-> <<
        [partOfSpeech |-> <<"n", "o", "u", "n">>,
         definitions |-> <<
           [definition |-> <<"a", " ", "b", "u", "l", "l">>,
           example |-> <<>>,
           synonyms |-> <<>>]>>,
         synonyms |-> <<>>]>>]

EntryGo ==
    [word |-> <<"g", "o">>,
     phonetic |-> <<"/", "g", "/">>,
     phonetics |-> <<>>,
     meanings |-> <<
        [partOfSpeech |-> <<"v", "e", "r", "b">>,
         definitions |-> <<
           [definition |-> <<"t", "o", " ", "m", "o", "v", "e">>,
           example |-> <<"w", "e", " ", "g", "o">>,
           synonyms |-> <<<<"m", "o", "v", "e">>>>]>>,
         synonyms |-> <<>>]>>]

EntryErudite ==
    [word |-> <<"e", "r", "u", "d", "i", "t", "e">>,
     phonetic |-> <<"/", "x", "/">>,
     phonetics |-> <<[text |-> <<>>], [text |-> <<"/", "e", "r", "/">>]>>,
     meanings |-> <<
        [partOfSpeech |-> <<"a", "d", "j", "e", "c", "t", "i", "v", "e">>,
         definitions |-> <<
           [definition |-> <<"h", "a", "v", "i", "n", "g", " ", "o", "r", 
                            " ", "s", "h", "o", "w", "i", "n", "g", " ", 
                            "g", "r", "e", "a", "t", " ", "k", "n", "o", 
                            "w", "l", "e", "d", "g", "e">>,
           example |-> <<"a", "n", " ", "e", "r", "u", "d", "i", "t", "e", 
                         " ", "t", "a", "l", "k">>,
           synonyms |-> <<<<"l", "e", "a", "r", "n", "e", "d">>>>],
           [definition |-> <<"w", "i", "s", "e">>,
           example |-> <<>>,
           synonyms |-> <<>>]>>,
         synonyms |-> <<<<"l", "e", "a", "r", "n", "e", "d">>, <<"s", "c", "h", "o", "l", "a", "r", "l", "y">>>>],
        [partOfSpeech |-> <<"n", "o", "u", "n">>,
         definitions |-> <<
           [definition |-> <<"a", " ", "s", "c", "h", "o", "l", "a", "r">>,
           example |-> <<>>,
           synonyms |-> <<<<"s", "a", "g", "e">>>>]>>,
         synonyms |-> <<>>]>>]

EntryLong ==
    [word |-> <<"w", "e", "l", "t", "a", "n", "s", "c", "h", "a", "u", "u", "n", "g">>,
     phonetic |-> <<>>,
     phonetics |-> <<[text |-> <<"/", "v", "/">>]>>,
     meanings |-> <<
        [partOfSpeech |-> <<"n", "o", "u", "n">>,
         definitions |-> <<
           [definition |-> <<"a", " ", "c", "o", "m", "p", "r", "e", "h", 
                            "e", "n", "s", "i", "v", "e", " ", "u", "n", 
                            "d", "e", "r", "s", "t", "a", "n", "d", "i", 
                            "n", "g", " ", "o", "f", " ", "l", "i", "f", 
                            "e">>,
           example |-> <<>>,
           synonyms |-> <<>>]>>,
         synonyms |-> <<<<"w", "o", "r", "l", "d", "v", "i", "e", "w">>>>]>>]

Entries == {EntryOx, EntryGo, EntryErudite, EntryLong}

(***************************************************************************)
(* Runs of displayWord over entries and terminal widths                     *)
(***************************************************************************)
\* Deno.consoleSize().columns: contentWidth is columns - 4, capped at 80
TerminalWidths == {0, 1, 3, 4, 5, 8, 14, 24, 44, 64, 82, 100}

InitRender ==
    /\ pc = "fetched"
    /\ data \in {[t |-> "array", v |-> <<e>>] : e \in Entries}
    /\ terminalWidth \in TerminalWidths
    /\ colorEnabled \in BOOLEAN
    /\ defaultResp = None /\ homeDir = None /\ ensureDirOk = TRUE
    /\ customFile = None /\ now = None /\ apiResp = None
    /\ defaultWords = <<>> /\ customWords = <<>> /\ wordList = <<>>
    /\ word = None /\ firstWord = None
    /\ lookups = <<>> /\ stdout = <<>> /\ stderr = <<>>
    /\ text = <<>> /\ prefix = <<>> /\ contentWidth = 0 /\ lines = <<>>

NextRender == DisplayWord

SpecRender == InitRender /\ [][NextRender]_vars

RECURSIVE visibleFrom(_, _, _)
visibleFrom(s, i, inEscape) ==
    IF i > Len(s) THEN 0
    ELSE IF inEscape THEN visibleFrom(s, i + 1, s[i] # "m")
    ELSE IF s[i] = ESC THEN visibleFrom(s, i + 1, TRUE)
    ELSE 1 + visibleFrom(s, i + 1, FALSE)

\* the number of characters of a line the terminal shows: all but the SGR
\* sequences ESC [ ... m
VisibleLength(s) == visibleFrom(s, 1, FALSE)

\* C4: for contentWidth 10, 40 and 78, every line displayWord prints has
\* the same length, contentWidth + 2.
C4_AllLinesSameWidth ==
    (pc = "done" /\ stdout # <<>> /\ contentWidth \in {10, 40, 78})
        => \A i \in 1..Len(stdout) : VisibleLength(stdout[i]) = contentWidth + 2

\* C9: for every terminal width displayWord does not throw, contentWidth is
\* min(80, terminalWidth - 4) raised to a positive floor, and the box is
\* printed from its top border to its bottom border.
C9_SmallTerminalStillRenders ==
    (pc \in {"done", "failed"} /\ data.t = "array" /\ data.v # <<>>)
        => /\ pc = "done"
           /\ contentWidth >= 1
           /\ contentWidth >= Min(80, terminalWidth - 4)
           /\ Len(stdout) >= 2
           /\ VisibleLength(stdout[1]) = contentWidth + 2
           /\ "TL" \in Range(stdout[1])
           /\ "BL" \in Range(stdout[Len(stdout)])

(***************************************************************************)
(* Runs of main                                                             *)
(***************************************************************************)
MainDefaultResponses ==
    {r \in DefaultResponses :
        r.json.t = "array" => r.json.v \in {<<>>, <<"alpha", "beta">>}}

MainCustomFiles ==
    {f \in CustomFiles :
        f.json.t = "array" => f.json.v \in {<<>>, <<"beta">>}}

MainInstants ==
    {[year |-> 2023, month |-> 1, day |-> 3, hour |-> 12, zone |-> "fixed"],
     [year |-> 2024, month |-> 12, day |-> 31, hour |-> 23, zone |-> "north"]}

ApiResponses ==
    {[kind |-> "throw", status |-> 0, json |-> NoJson, message |-> <<"error sending request">>]}
    \cup {[kind |-> "response", status |-> st, json |-> [t |-> "object", v |-> <<>>],
           message |-> <<>>] : st \in {404, 500}}
    \cup {[kind |-> "response", status |-> 200, json |-> j, message |-> <<>>] :
            j \in {NoJson, [t |-> "array", v |-> <<>>],
                   [t |-> "array", v |-> <<EntryGo>>],
                   [t |-> "array", v |-> <<EntryErudite, EntryOx>>]}}

Init ==
    /\ pc = "start"
    /\ defaultResp \in MainDefaultResponses
    /\ homeDir \in {"set", "unset"}
    /\ ensureDirOk \in BOOLEAN
    /\ customFile \in MainCustomFiles
    \* without HOME or the directory, the file is not there to be read
    /\ (homeDir = "unset" \/ ~ensureDirOk) => customFile.kind = "NotFound"
    /\ now \in MainInstants
    /\ apiResp \in ApiResponses
    /\ terminalWidth \in {3, 24}
    /\ colorEnabled \in BOOLEAN
    /\ defaultWords = <<>> /\ customWords = <<>> /\ wordList = <<>>
    /\ word = None /\ firstWord = None /\ data = NoData
    /\ lookups = <<>> /\ stdout = <<>> /\ stderr = <<>>
    /\ text = <<>> /\ prefix = <<>> /\ contentWidth = 0 /\ lines = <<>>

Next == LoadWordList \/ GetWordOfTheDay \/ FetchWordData \/ DisplayWord

Spec == Init /\ [][Next]_vars

\* the dictionary lookup failed: a transport error or a response that is
\* not ok
LookupFailed == apiResp.kind = "throw" \/ ~isOk(apiResp.status)

StartsWith(s, p) == Len(s) >= Len(p) /\ SubSeq(s, 1, Len(p)) = p

NoSpace(w) == \A i \in 1..Len(w) : w[i] # SP

\* the words of a string: its maximal runs of characters other than space
TextWords(s) == SelectSeq(split(s), LAMBDA w : w # <<>>)

\* the strings r that pad turns into the output line: the line without
\* pad's leading space and without right padding
Unpadded(line, cw) ==
    {r \in {SubSeq(line, 2, k) : k \in 1..Len(line)} : pad(r, cw) = line}

\* an output line without pad's leading space and without the prefix
AfterPrefix(line, pfx) == SubSeq(line, 2 + Len(pfx), Len(line))

\* C5: text that fits on one line (prefix + text is at most
\* contentWidth - 2 characters) is wrapped into exactly one line, which is
\* prefix + text padded to the line width.
C5_ShortTextOneLine ==
    (pc = "wrapped" /\ Len(prefix) + Len(text) <= contentWidth - 2)
        => lines = <<pad(prefix \o text, contentWidth)>>

\* C6: every line of wrap is the prefix followed by whole words of the text,
\* and prefix + content is at most contentWidth - 2 characters long unless
\* the line holds the prefix and one single word and nothing else.
C6_LinesWithinWidth ==
    pc = "wrapped" =>
        \A i \in 1..Len(lines) :
            \E r \in Unpadded(lines[i], contentWidth) :
                /\ StartsWith(r, prefix)
                /\ LET c == SubSeq(r, Len(prefix) + 1, Len(r))
                   IN  /\ Range(TextWords(c)) \subseteq Range(TextWords(text))
                       /\ \/ Len(r) <= contentWidth - 2
                          \/ c # <<>> /\ NoSpace(c)

\* C10: the words of the output lines (each line without the prefix and the
\* padding), taken line after line, are exactly the words of the text in
\* order: wrap loses, duplicates and reorders no word.
C10_WrapKeepsWords ==
    pc = "wrapped" =>
        Flatten([i \in 1..Len(lines) |-> TextWords(AfterPrefix(lines[i], prefix))])
            = TextWords(text)

\* C10: a text of three words that wrap spreads over two lines
C10_Witness ==
    /\ pc = "wrapped"
    /\ Len(TextWords(text)) = 3
    /\ Len(lines) = 2
    /\ TextWords(AfterPrefix(lines[1], prefix)) # <<>>
    /\ TextWords(AfterPrefix(lines[2], prefix)) # <<>>

====
